---- MODULE Spec2Model ----
(***************************************************************************)
(* Model of scripts/pubmatch.py: get_clean_xml (search, history post,      *)
(* batched fetch with retry, header clean-up), create_corpus and           *)
(* article_from_pubmed.                                                    *)
(***************************************************************************)
EXTENDS Integers, Sequences, FiniteSets, TLC

(* ------------------------------ bounds --------------------------------- *)
MaxCount == 4
MaxBatch == 2
MaxArticleLines == 7
MaxIds == 2

(* --------------------------- program constants ------------------------- *)
MaxAttempts == 3
HeaderLines == 10
TransientLow == 500
TransientHigh == 599

search_term == "CRISPR AND 2020"

\* lines per article element in the remote's serialisation (compact / pretty)
ArticleLineCounts == {1, MaxArticleLines}
\* session handles the remote may hand out
WebEnvs == {"MCID_1", "MCID_2"}
QueryKeys == {"1", "2"}
\* HTTP status codes a failing efetch may carry
ErrorCodes == {404, 500, 599, 600}

VARIABLES
    pc,             \* position in get_clean_xml / create_corpus
    boundHTTPError, \* does the name HTTPError resolve in the module's globals
    boundTime,      \* does the name time resolve in the module's globals
    batch_size,     \* argument batch_size
    linesPerArticle,\* shape of the remote's serialisation
    count,          \* int(record["Count"])
    webenv,         \* local webenv
    query_key,      \* local query_key
    id_list,        \* record["IdList"] of the second search
    posted,         \* has Entrez.epost been called
    start,          \* loop variable of the for loop
    attempt,        \* loop variable of the while loop
    fetch_handle,   \* local fetch_handle (Unbound before the first success)
    results,        \* outcomes of the attempts of the current window
    allOk,          \* every efetch issued so far returned a handle
    fetchLog,       \* efetch requests issued so far
    written,        \* out_handle.write calls so far (window, source window)
    sleeps,         \* number of time.sleep(15) calls
    scratch,        \* contents of file_batched (sequence of lines)
    scratchExists,  \* file_batched exists on disk
    cleaned,        \* contents of file_cleaned (NotWritten until opened)
    corpus,         \* result of create_corpus
    error,          \* exception that left the run
    root,           \* argument root of article_from_pubmed
    article,        \* Article returned by article_from_pubmed
    xpc             \* position in article_from_pubmed

vars == <<pc, boundHTTPError, boundTime, batch_size, linesPerArticle, count,
          webenv, query_key, id_list, posted, start, attempt, fetch_handle,
          results, allOk, fetchLog, written, sleeps, scratch, scratchExists,
          cleaned, corpus, error, root, article, xpc>>

\* the variables of article_from_pubmed
xvars == <<root, article, xpc>>

Min(a, b) == IF a < b THEN a ELSE b

(* ------------------------------ lines ---------------------------------- *)
\* A line is its leading text (head) plus the record it belongs to.
Line(h, r, p) == [head |-> h, rec |-> r, part |-> p]

XmlDeclLine == Line("<?xml version", -1, 0)
DoctypeLine == Line("<!DOCTYPE PubmedArticleSet PUBLIC", -1, 0)
RootOpenLine == Line("<PubmedArticleSet", -1, 0)
RootCloseLine == Line("</PubmedArticleSet", -1, 0)
EmptyLine == Line("", -1, 0)
CommentLine == Line("<!--Generated by PubMed search term: ", -1, 0)

ArticleHead(p, n) ==
    IF p = 1 THEN "<PubmedArticle>"
    ELSE IF p = n THEN "</PubmedArticle>" ELSE "<MedlineCitation"

ArticleLines(r, n) == [p \in 1..n |-> Line(ArticleHead(p, n), r, p)]

RECURSIVE RecordLines(_, _, _)
RecordLines(lo, hi, n) ==
    IF lo >= hi THEN <<>>
    ELSE ArticleLines(lo, n) \o RecordLines(lo + 1, hi, n)

\* the remote's answer to efetch(retstart, retmax) on a history of size total
Response(retstart, retmax, total, n) ==
    <<XmlDeclLine, DoctypeLine, RootOpenLine>>
        \o RecordLines(retstart, Min(retstart + retmax, total), n)
        \o <<RootCloseLine>>

(* ------------------------- article elements ---------------------------- *)
\* Python values of the Article fields: None, a str, an int
None == [t |-> "None", s |-> "", n |-> 0]
Str(x) == [t |-> "str", s |-> x, n |-> 0]
IntValue(k) == [t |-> "int", s |-> "", n |-> k]
\* Element.text: None for an element without text
Text(x) == IF x = "" THEN None ELSE Str(x)

\* a sub-element that is missing, or present with its text
NoElem == [present |-> FALSE, text |-> ""]
Elem(x) == [present |-> TRUE, text |-> x]

\* ArticleId elements: attribute value (IdType) and text
Schemes == {"doi", "pubmed", "pii"}
IdTexts == {"", "10.1/x", "999"}
ArticleIds == [scheme : Schemes, text : IdTexts]
SeqsUpTo(S, n) == UNION {[1..k -> S] : k \in 0..n}

\* Author elements, with or without a LastName
AuthorLists == {<<>>, <<Elem("Doe")>>, <<Elem("Doe"), NoElem, Elem("Roe")>>}

\* Abstract elements: own text, child elements (text, tail), own tail
NoAbstract == [present |-> FALSE, text |-> "", children |-> <<>>, tail |-> ""]
AbstractElem(x, ch, tl) ==
    [present |-> TRUE, text |-> x, children |-> ch, tail |-> tl]
Abstracts ==
    {NoAbstract,
     AbstractElem("Plain text.", <<>>, ""),
     AbstractElem("", <<[text |-> "We show ", tail |-> ""],
                        [text |-> "in vivo", tail |-> " results."]>>, ""),
     AbstractElem("A ", <<[text |-> "b", tail |-> " c"]>>, " ")}

\* PubmedArticle elements handed to article_from_pubmed
Elements ==
    [ids : SeqsUpTo(ArticleIds, MaxIds), authors : AuthorLists,
     title : {NoElem, Elem("A title")}, journal : {NoElem, Elem("J Mol Biol")},
     year : {NoElem, Elem("2020")}, abstract : Abstracts]

NoElement ==
    [ids |-> <<>>, authors |-> <<>>, title |-> NoElem, journal |-> NoElem,
     year |-> NoElem, abstract |-> NoAbstract]

\* abstract values: None or the text pieces in order
NoText == [t |-> "None", parts |-> <<>>]
Pieces(ps) == [t |-> "str", parts |-> ps]

\* lines 118-128: Article(), every field at its default
DefaultArticle ==
    [my_id |-> None, doi |-> None, pmid |-> None, authors |-> <<>>,
     title |-> None, abstract |-> NoText, content |-> None,
     journal |-> None, year |-> IntValue(0), references |-> <<>>,
     raised |-> "none"]

(* --------------------------- get_clean_xml ----------------------------- *)
NoError == [type |-> "none", code |-> 0, window |-> -1]
Raise(t, c, w) == [type |-> t, code |-> c, window |-> w]

Unbound == [bound |-> FALSE, win |-> -1, closed |-> FALSE, data |-> <<>>]
Handle(w, d) == [bound |-> TRUE, win |-> w, closed |-> FALSE, data |-> d]

NotWritten == <<Line("(not written)", -1, 0)>>

\* The file imports neither HTTPError nor time (lines 3-16): whether the two
\* names resolve at lines 84 and 88 depends on the namespace the script is
\* executed in, so both cases are initial states.
Init ==
    /\ pc = "esearch"
    /\ boundHTTPError \in BOOLEAN
    /\ boundTime \in BOOLEAN
    /\ batch_size \in 1..MaxBatch
    /\ linesPerArticle \in ArticleLineCounts
    /\ count = 0
    /\ webenv = ""
    /\ query_key = ""
    /\ id_list = <<>>
    /\ posted = FALSE
    /\ start = 0
    /\ attempt = 0
    /\ fetch_handle = Unbound
    /\ results = <<>>
    /\ allOk = TRUE
    /\ fetchLog = <<>>
    /\ written = <<>>
    /\ sleeps = 0
    /\ scratch = <<>>
    /\ scratchExists = TRUE
    /\ cleaned = NotWritten
    /\ corpus = <<>>
    /\ error = NoError
    /\ root = NoElement
    /\ article = DefaultArticle
    /\ xpc = "idle"

\* lines 49-55: first esearch, count and the search's own history pair
Esearch ==
    /\ pc = "esearch"
    /\ UNCHANGED xvars
    /\ \E c \in 0..MaxCount, w \in WebEnvs, k \in QueryKeys :
          /\ count' = c
          /\ webenv' = w
          /\ query_key' = k
    /\ pc' = "esearch2"
    /\ UNCHANGED <<boundHTTPError, boundTime, batch_size, linesPerArticle,
                   id_list, posted, start, attempt, fetch_handle, results,
                   allOk, fetchLog, written, sleeps, scratch, scratchExists,
                   cleaned, corpus, error>>

\* the assertion weakened to an upper bound
CountsAgree_AtMost(c, ids) == c >= Len(ids)

\* line 62: assert count == len(id_list)
CountsAgree(c, ids) == c = Len(ids)

RECURSIVE Ids(_)
Ids(n) == IF n = 0 THEN <<>> ELSE Append(Ids(n - 1), n - 1)

\* lines 58-63: second esearch with retmax = count, then the assertion
Esearch2 ==
    /\ pc = "esearch2"
    /\ UNCHANGED xvars
    /\ \E n \in 0..count :
          /\ id_list' = Ids(n)
          /\ IF CountsAgree(count, Ids(n))
                THEN /\ pc' = "epost"
                     /\ error' = error
                ELSE /\ pc' = "failed"
                     /\ error' = Raise("AssertionError", 0, -1)
    /\ UNCHANGED <<boundHTTPError, boundTime, batch_size, linesPerArticle,
                   count, webenv, query_key, posted, start, attempt,
                   fetch_handle, results, allOk, fetchLog, written, sleeps,
                   scratch, scratchExists, cleaned, corpus>>

\* file_cleaned opened for writing together with the scratch file
Epost_OpensCleaned ==
    /\ pc = "epost"
    /\ UNCHANGED xvars
    /\ posted' = TRUE
    /\ \/ /\ \E w \in WebEnvs, k \in QueryKeys :
                /\ webenv' = w
                /\ query_key' = k
          /\ start' = 0
          /\ scratch' = <<>>
          /\ cleaned' = <<>>
          /\ pc' = "for"
          /\ error' = error
       \/ /\ pc' = "failed"
          /\ error' = Raise("RuntimeError", 0, -1)
          /\ UNCHANGED <<webenv, query_key, start, scratch, cleaned>>
    /\ UNCHANGED <<boundHTTPError, boundTime, batch_size, linesPerArticle,
                   count, id_list, attempt, fetch_handle, results, allOk,
                   fetchLog, written, sleeps, scratchExists, corpus>>

\* lines 65-72: epost of the id list, its history pair replaces the search's;
\* the scratch file is opened for writing
Epost ==
    /\ pc = "epost"
    /\ UNCHANGED xvars
    /\ posted' = TRUE
    /\ \/ /\ \E w \in WebEnvs, k \in QueryKeys :
                /\ webenv' = w
                /\ query_key' = k
          /\ start' = 0
          /\ scratch' = <<>>
          /\ pc' = "for"
          /\ error' = error
       \/ /\ pc' = "failed"
          /\ error' = Raise("RuntimeError", 0, -1)
          /\ UNCHANGED <<webenv, query_key, start, scratch>>
    /\ UNCHANGED <<boundHTTPError, boundTime, batch_size, linesPerArticle,
                   count, id_list, attempt, fetch_handle, results, allOk,
                   fetchLog, written, sleeps, scratchExists, cleaned, corpus>>

\* lines 73-76: for start in range(0, count, batch_size); attempt = 0
ForStart ==
    /\ pc = "for"
    /\ UNCHANGED xvars
    /\ IF start < count
          THEN /\ attempt' = 0
               /\ results' = <<>>
               /\ pc' = "while"
          ELSE /\ pc' = "comment"
               /\ UNCHANGED <<attempt, results>>
    /\ UNCHANGED <<boundHTTPError, boundTime, batch_size, linesPerArticle,
                   count, webenv, query_key, id_list, posted, start,
                   fetch_handle, allOk, fetchLog, written, sleeps, scratch,
                   scratchExists, cleaned, corpus, error>>

\* a retry that leaves out the history's query key
FetchRequest_RetryWithoutKey(s, a) ==
    [retstart |-> s, retmax |-> batch_size, webenv |-> webenv,
     query_key |-> IF a = 1 THEN query_key ELSE "", attempt |-> a]

\* lines 80-83: the efetch request of one attempt
FetchRequest(s, a) ==
    [retstart |-> s, retmax |-> batch_size, webenv |-> webenv,
     query_key |-> query_key, attempt |-> a]

\* client errors (4xx) taken for retriable ones
IsTransient_ClientErrorsToo(code) == 400 <= code /\ code <= TransientHigh

\* line 85
IsTransient(code) == TransientLow <= code /\ code <= TransientHigh

\* lines 77-83: one iteration of the while loop whose efetch returns a handle
FetchOk ==
    /\ pc = "while"
    /\ UNCHANGED xvars
    /\ attempt < MaxAttempts
    /\ attempt' = attempt + 1
    /\ fetchLog' = Append(fetchLog, FetchRequest(start, attempt + 1))
    /\ fetch_handle' = Handle(start, Response(start, batch_size, Len(id_list),
                                              linesPerArticle))
    /\ results' = Append(results, 200)
    /\ UNCHANGED <<pc, boundHTTPError, boundTime, batch_size, linesPerArticle,
                   count, webenv, query_key, id_list, posted, start, allOk,
                   written, sleeps, scratch, scratchExists, cleaned, corpus,
                   error>>

\* the loop bound off by one: a fourth attempt after a failure
FetchError_OneMoreAttempt ==
    /\ pc = "while"
    /\ UNCHANGED xvars
    /\ attempt <= MaxAttempts
    /\ attempt' = attempt + 1
    /\ fetchLog' = Append(fetchLog, FetchRequest(start, attempt + 1))
    /\ allOk' = FALSE
    /\ \E code \in ErrorCodes :
          /\ results' = Append(results, code)
          /\ IF ~boundHTTPError
                THEN /\ pc' = "failed"
                     /\ error' = Raise("NameError", code, start)
                     /\ sleeps' = sleeps
                ELSE IF IsTransient(code)
                THEN IF boundTime
                        THEN /\ sleeps' = sleeps + 1
                             /\ UNCHANGED <<pc, error>>
                        ELSE /\ pc' = "failed"
                             /\ error' = Raise("NameError", code, start)
                             /\ sleeps' = sleeps
                ELSE /\ pc' = "failed"
                     /\ error' = Raise("HTTPError", code, start)
                     /\ sleeps' = sleeps
    /\ UNCHANGED <<boundHTTPError, boundTime, batch_size, linesPerArticle,
                   count, webenv, query_key, id_list, posted, start,
                   fetch_handle, written, scratch, scratchExists, cleaned,
                   corpus>>

\* lines 77-90: one iteration of the while loop whose efetch raises an HTTP
\* error; the names HTTPError (line 84) and time (line 88) are looked up in
\* the module's globals when they are reached
FetchError ==
    /\ pc = "while"
    /\ UNCHANGED xvars
    /\ attempt < MaxAttempts
    /\ attempt' = attempt + 1
    /\ fetchLog' = Append(fetchLog, FetchRequest(start, attempt + 1))
    /\ allOk' = FALSE
    /\ \E code \in ErrorCodes :
          /\ results' = Append(results, code)
          /\ IF ~boundHTTPError
                THEN /\ pc' = "failed"
                     /\ error' = Raise("NameError", code, start)
                     /\ sleeps' = sleeps
                ELSE IF IsTransient(code)
                THEN IF boundTime
                        THEN /\ sleeps' = sleeps + 1
                             /\ UNCHANGED <<pc, error>>
                        ELSE /\ pc' = "failed"
                             /\ error' = Raise("NameError", code, start)
                             /\ sleeps' = sleeps
                ELSE /\ pc' = "failed"
                     /\ error' = Raise("HTTPError", code, start)
                     /\ sleeps' = sleeps
    /\ UNCHANGED <<boundHTTPError, boundTime, batch_size, linesPerArticle,
                   count, webenv, query_key, id_list, posted, start,
                   fetch_handle, written, scratch, scratchExists, cleaned,
                   corpus>>

\* outcomes of read() on a handle that was closed for an earlier window:
\* the handle type decides (raises, yields nothing, yields its data again)
StaleReads == {"raise", "empty", "again"}

\* lines 91-93 after the while loop ends: read, close, write
ReadWrite ==
    /\ pc = "while"
    /\ UNCHANGED xvars
    /\ attempt >= MaxAttempts
    /\ IF ~fetch_handle.bound
          THEN /\ pc' = "failed"
               /\ error' = Raise("UnboundLocalError", 0, start)
               /\ UNCHANGED <<fetch_handle, scratch, written, start>>
          ELSE \E how \in IF fetch_handle.closed THEN StaleReads ELSE {"read"} :
                 IF how = "raise"
                    THEN /\ pc' = "failed"
                         /\ error' = Raise("ValueError", 0, start)
                         /\ UNCHANGED <<fetch_handle, scratch, written, start>>
                    ELSE LET data == IF how = "empty" THEN <<>>
                                     ELSE fetch_handle.data
                         IN /\ fetch_handle' = [fetch_handle EXCEPT !.closed = TRUE]
                            /\ scratch' = scratch \o data
                            /\ written' = Append(written,
                                   [window |-> start, from |-> fetch_handle.win,
                                    data |-> data])
                            /\ start' = start + batch_size
                            /\ pc' = "for"
                            /\ error' = error
    /\ UNCHANGED <<boundHTTPError, boundTime, batch_size, linesPerArticle,
                   count, webenv, query_key, id_list, posted, attempt, results,
                   allOk, fetchLog, sleeps, scratchExists, cleaned, corpus>>

\* lines 96-99: the search term comment, appended to the scratch file
search_term_comment == <<EmptyLine, CommentLine>>

AppendComment ==
    /\ pc = "comment"
    /\ UNCHANGED xvars
    /\ scratch' = scratch \o search_term_comment
    /\ pc' = "clean"
    /\ UNCHANGED <<boundHTTPError, boundTime, batch_size, linesPerArticle,
                   count, webenv, query_key, id_list, posted, start, attempt,
                   fetch_handle, results, allOk, fetchLog, written, sleeps,
                   scratchExists, cleaned, corpus, error>>

\* the closing root tag forgotten among the prefixes
problems_NoClose == {"<?xml version", "<!DOCTYPE PubmedArticleSet PUBLIC",
                     "<PubmedArticleSet"}

\* line 102
problems == {"<?xml version", "<!DOCTYPE PubmedArticleSet PUBLIC",
             "<PubmedArticleSet", "</PubmedArticleSet"}

\* line 108: line.startswith(problems)
startswith(line, prefixes) == line.head \in prefixes

\* lines 105-110: first lines verbatim, the rest filtered, closing tag added
Clean(raw) ==
    LET k == Min(HeaderLines, Len(raw))
    IN SubSeq(raw, 1, k)
         \o SelectSeq(SubSeq(raw, k + 1, Len(raw)),
                      LAMBDA l : ~startswith(l, problems))
         \o <<RootCloseLine>>

\* lines 103-110
CleanFile ==
    /\ pc = "clean"
    /\ UNCHANGED xvars
    /\ cleaned' = Clean(scratch)
    /\ pc' = "unlink"
    /\ UNCHANGED <<boundHTTPError, boundTime, batch_size, linesPerArticle,
                   count, webenv, query_key, id_list, posted, start, attempt,
                   fetch_handle, results, allOk, fetchLog, written, sleeps,
                   scratch, scratchExists, corpus, error>>

\* line 112
Unlink ==
    /\ pc = "unlink"
    /\ UNCHANGED xvars
    /\ scratchExists' = FALSE
    /\ pc' = "returned"
    /\ UNCHANGED <<boundHTTPError, boundTime, batch_size, linesPerArticle,
                   count, webenv, query_key, id_list, posted, start, attempt,
                   fetch_handle, results, allOk, fetchLog, written, sleeps,
                   scratch, cleaned, corpus, error>>

(* ---------------------------- create_corpus ---------------------------- *)
\* ET.parse: the document is scanned line by line; depth -1 is a parse error
ParseStart == [depth |-> 0, root |-> FALSE, doctype |-> FALSE]
ParseError == [depth |-> -1, root |-> FALSE, doctype |-> FALSE]

ParseStep(st, line, pos) ==
    IF st.depth < 0 THEN st
    ELSE IF line.head = "" \/ line = CommentLine THEN st
    ELSE IF line = XmlDeclLine
         THEN IF pos = 1 THEN st ELSE ParseError
    ELSE IF line = DoctypeLine
         THEN IF ~st.root /\ ~st.doctype
                 THEN [st EXCEPT !.doctype = TRUE] ELSE ParseError
    ELSE IF line = RootOpenLine
         THEN IF st.root /\ st.depth = 0 THEN ParseError
              ELSE [st EXCEPT !.depth = st.depth + 1, !.root = TRUE]
    ELSE IF line = RootCloseLine
         THEN IF st.depth > 0
                 THEN [st EXCEPT !.depth = st.depth - 1] ELSE ParseError
    ELSE IF st.depth > 0 THEN st ELSE ParseError

RECURSIVE ParseFrom(_, _, _)
ParseFrom(st, doc, pos) ==
    IF pos > Len(doc) THEN st
    ELSE ParseFrom(ParseStep(st, doc[pos], pos), doc, pos + 1)

WellFormed(doc) ==
    LET st == ParseFrom(ParseStart, doc, 1)
    IN st.depth = 0 /\ st.root

\* line 168: root.findall('.//PubmedArticle'), here the record of each element
RECURSIVE Articles(_)
Articles(doc) ==
    IF doc = <<>> THEN <<>>
    ELSE IF Head(doc).head = "<PubmedArticle>"
         THEN <<Head(doc).rec>> \o Articles(Tail(doc))
         ELSE Articles(Tail(doc))

\* lines 162-171
CreateCorpus ==
    /\ pc = "returned"
    /\ UNCHANGED xvars
    /\ IF WellFormed(cleaned)
          THEN /\ corpus' = Articles(cleaned)
               /\ pc' = "corpus"
               /\ error' = error
          ELSE /\ pc' = "failed"
               /\ error' = Raise("ParseError", 0, -1)
               /\ corpus' = corpus
    /\ UNCHANGED <<boundHTTPError, boundTime, batch_size, linesPerArticle,
                   count, webenv, query_key, id_list, posted, start, attempt,
                   fetch_handle, results, allOk, fetchLog, written, sleeps,
                   scratch, scratchExists, cleaned>>

Next ==
    \/ Esearch
    \/ Esearch2
    \/ Epost
    \/ ForStart
    \/ FetchOk
    \/ FetchError
    \/ ReadWrite
    \/ AppendComment
    \/ CleanFile
    \/ Unlink
    \/ CreateCorpus

Spec == Init /\ [][Next]_vars

(* ------------------------- article_from_pubmed ------------------------- *)
\* line 136: positions of the ArticleId elements with attribute value sch
IdsWith(ids, sch) == {i \in DOMAIN ids : ids[i].scheme = sch}
MaxOf(S) == CHOOSE i \in S : \A j \in S : j <= i

\* lines 137-142: is the key in fields after the loop, and its value (the
\* text of the last such element, None when that element has no text)
HasField(ids, sch) == IdsWith(ids, sch) # {}
IdField(ids, sch) ==
    IF HasField(ids, sch) THEN Text(ids[MaxOf(IdsWith(ids, sch))].text)
    ELSE None

\* the native identifier preferred over the DOI
MyId_PmidFirst(ids) ==
    IF HasField(ids, "pubmed") THEN IdField(ids, "pubmed")
    ELSE IF HasField(ids, "doi") THEN IdField(ids, "doi")
    ELSE None

\* lines 143-147
MyId(ids) ==
    IF HasField(ids, "doi") THEN IdField(ids, "doi")
    ELSE IF HasField(ids, "pubmed") THEN IdField(ids, "pubmed")
    ELSE None

\* lines 148-152: the text of every AuthorList/Author/LastName
RECURSIVE Surnames(_)
Surnames(as) ==
    IF as = <<>> THEN <<>>
    ELSE IF Head(as).present
         THEN <<Text(Head(as).text)>> \o Surnames(Tail(as))
         ELSE Surnames(Tail(as))

\* lines 153-155: root.findtext(path)
findtext(e) == IF e.present THEN Str(e.text) ELSE None

\* line 157: the truth value of an Element is that of its list of children
Truth(e) == e.present /\ e.children # <<>>

\* line 158: ET.tostring(method='text'): the element's text, each child's
\* text and tail in order, then the element's own tail
RECURSIVE ChildText(_)
ChildText(ch) ==
    IF ch = <<>> THEN <<>>
    ELSE <<Head(ch).text, Head(ch).tail>> \o ChildText(Tail(ch))

tostring(e) ==
    SelectSeq(<<e.text>> \o ChildText(e.children) \o <<e.tail>>,
              LAMBDA x : x # "")

\* lines 156-158
Abstract(e) == IF Truth(e) THEN Pieces(tostring(e)) ELSE NoText

\* find(path).text in place of findtext(path): a missing title raises
article_from_pubmed_FindDotText(r) ==
    IF ~r.title.present
       THEN [DefaultArticle EXCEPT !.raised = "AttributeError"]
       ELSE [DefaultArticle EXCEPT
                !.doi = IdField(r.ids, "doi"),
                !.pmid = IdField(r.ids, "pubmed"),
                !.my_id = MyId(r.ids),
                !.authors = Surnames(r.authors),
                !.title = Str(r.title.text),
                !.journal = findtext(r.journal),
                !.year = findtext(r.year),
                !.abstract = Abstract(r.abstract)]

\* lines 133-160
article_from_pubmed(r) ==
    [DefaultArticle EXCEPT
        !.doi = IdField(r.ids, "doi"),
        !.pmid = IdField(r.ids, "pubmed"),
        !.my_id = MyId(r.ids),
        !.authors = Surnames(r.authors),
        !.title = findtext(r.title),
        !.journal = findtext(r.journal),
        !.year = findtext(r.year),
        !.abstract = Abstract(r.abstract)]

\* a call of article_from_pubmed on any article element
ExtractInit ==
    /\ pc = "esearch"
    /\ boundHTTPError = FALSE
    /\ boundTime = FALSE
    /\ batch_size = 1
    /\ linesPerArticle = 1
    /\ count = 0
    /\ webenv = ""
    /\ query_key = ""
    /\ id_list = <<>>
    /\ posted = FALSE
    /\ start = 0
    /\ attempt = 0
    /\ fetch_handle = Unbound
    /\ results = <<>>
    /\ allOk = TRUE
    /\ fetchLog = <<>>
    /\ written = <<>>
    /\ sleeps = 0
    /\ scratch = <<>>
    /\ scratchExists = TRUE
    /\ cleaned = NotWritten
    /\ corpus = <<>>
    /\ error = NoError
    /\ root \in Elements
    /\ article = DefaultArticle
    /\ xpc = "call"

ArticleFromPubmed ==
    /\ xpc = "call"
    /\ article' = article_from_pubmed(root)
    /\ xpc' = "returned"
    /\ UNCHANGED <<pc, boundHTTPError, boundTime, batch_size, linesPerArticle,
                   count, webenv, query_key, id_list, posted, start, attempt,
                   fetch_handle, results, allOk, fetchLog, written, sleeps,
                   scratch, scratchExists, cleaned, corpus, error, root>>

ExtractNext == ArticleFromPubmed

ExtractSpec == ExtractInit /\ [][ExtractNext]_vars

(* ------------------------------ properties ----------------------------- *)
Last(seq) == seq[Len(seq)]
Occurrences(seq, x) == Cardinality({i \in DOMAIN seq : seq[i] = x})
Is5xx(c) == c \in 500..599
IsHttpFailure(c) == c \in ErrorCodes
Windows == (count + batch_size - 1) \div batch_size
AfterFetching == pc \in {"comment", "clean", "unlink", "returned", "corpus"}

\* C1: for a non-empty result whose fetches all succeed, create_corpus on the
\* cleaned document returns exactly totalCount articles, every record index
\* of [0, totalCount) exactly once.
C1_CorpusHasEveryRecordOnce ==
    (count >= 1 /\ allOk /\ (pc = "corpus" \/ error.type = "ParseError"))
        => /\ pc = "corpus"
           /\ Len(corpus) = count
           /\ \A r \in 0..(count - 1) : Occurrences(corpus, r) = 1

\* C2: when every attempt succeeds, each window is fetched exactly once, in
\* increasing window order, ceil(totalCount / batchSize) calls in total.
C2_OneFetchPerWindowWhenAllSucceed ==
    allOk =>
        /\ \A i \in DOMAIN fetchLog :
              fetchLog[i].retstart = (i - 1) * batch_size
        /\ AfterFetching => Len(fetchLog) = Windows

\* C3: a window whose fetch fails twice with a 5xx error and then succeeds is
\* fetched successfully: the run survives both failures, the third response
\* is written exactly once, and the run goes on to the next window.
C3_ThirdAttemptSucceeds ==
    /\ (results # <<>> /\ Len(results) <= 2
            /\ \A i \in DOMAIN results : Is5xx(results[i]))
          => pc = "while"
    /\ (Len(results) = 3 /\ Is5xx(results[1]) /\ Is5xx(results[2])
            /\ results[3] = 200 /\ pc # "while")
          => /\ error.type \in {"none", "ParseError"}
             /\ written # <<>>
             /\ Last(written).window = start - batch_size
             /\ Last(written).from = start - batch_size
             /\ Last(written).data = Response(start - batch_size, batch_size,
                                              count, linesPerArticle)
             /\ Cardinality({i \in DOMAIN written :
                              written[i].window = start - batch_size}) = 1

C5_NonTransientAbortsAtOnce ==
    [][/\ (Len(results') = Len(results) + 1
              /\ IsHttpFailure(Last(results')) /\ ~Is5xx(Last(results')))
          => /\ pc' = "failed"
             /\ error'.code = Last(results')
             /\ error'.window = start
             /\ sleeps' = sleeps
       /\ pc = "failed" => (fetchLog' = fetchLog /\ sleeps' = sleeps)]_vars

C5_Witness ==
    /\ pc = "failed"
    /\ error = Raise("HTTPError", 404, batch_size)
    /\ results = <<500, 404>>
    /\ sleeps = 1
    /\ Len(fetchLog) = MaxAttempts + 2

\* C6: the windows requested are [start, min(start + batchSize, totalCount))
\* for start = 0, batchSize, ...; they cover [0, totalCount) exactly once and
\* the responses are written verbatim in window order, each before the next
\* window is fetched.
C6_ClippedWindowsInOrder ==
    /\ \A i \in DOMAIN fetchLog :
          /\ fetchLog[i].retstart < count
          /\ fetchLog[i].retstart + fetchLog[i].retmax
                = Min(fetchLog[i].retstart + batch_size, count)
    /\ \A i \in DOMAIN written :
          /\ written[i].window = (i - 1) * batch_size
          /\ written[i].data = Response(written[i].window, batch_size, count,
                                        linesPerArticle)
    /\ \A i \in DOMAIN fetchLog :
          \A w \in 0..(count - 1) :
              (w < fetchLog[i].retstart /\ w % batch_size = 0)
                 => \E j \in DOMAIN written : written[j].window = w
    /\ AfterFetching =>
          \A r \in 0..(count - 1) : Occurrences(Articles(scratch), r) = 1

\* C7: every fetch request of a run, retries included, carries one and the
\* same (webenv, query_key) pair, fixed before the first fetch; neither the
\* pair nor the count changes once a fetch has been issued.
C7_OneSessionPairPerRun ==
    /\ [](\A i \in DOMAIN fetchLog :
              /\ fetchLog[i].webenv = webenv
              /\ fetchLog[i].query_key = query_key)
    /\ [][fetchLog' # <<>>
             => (webenv' = webenv /\ query_key' = query_key
                    /\ count' = count)]_vars

C7_Witness ==
    /\ Len(fetchLog) > MaxAttempts + 1
    /\ ~allOk
    /\ Is5xx(results[1])
    /\ fetchLog[1].retstart # Last(fetchLog).retstart

\* C8: when the first search's count differs from the number of ids of the
\* second search, the run fails there: no history post, no fetch, no write to
\* the cleaned file, and nothing runs afterwards.
C8_CountMismatchIsFatal ==
    (pc \notin {"esearch", "esearch2"} /\ count # Len(id_list))
      => /\ pc = "failed"
         /\ error.type = "AssertionError"
         /\ ~posted
         /\ fetchLog = <<>>
         /\ cleaned = NotWritten
         /\ ~ENABLED Next

C8_Witness ==
    /\ pc = "failed"
    /\ error.type = "AssertionError"
    /\ count = 2
    /\ Len(id_list) = 1

\* C9: when the service reports zero results, session establishment fails:
\* no window is fetched and no cleaned document is produced.
C9_ZeroResultsFail ==
    (pc \notin {"esearch", "esearch2"} /\ count = 0)
      => /\ pc \in {"epost", "failed"}
         /\ fetchLog = <<>>
         /\ cleaned = NotWritten

\* C10: the cleaned document of a stream of one or more fragments has exactly
\* one XML declaration, one doctype, one root-open and one root-close line
\* (the last line), and every article element of every fragment.
C10_OnePrologueOneClose ==
    (cleaned # NotWritten /\ written # <<>>)
      => /\ Occurrences(cleaned, XmlDeclLine) = 1
         /\ Occurrences(cleaned, DoctypeLine) = 1
         /\ Occurrences(cleaned, RootOpenLine) = 1
         /\ Occurrences(cleaned, RootCloseLine) = 1
         /\ Last(cleaned) = RootCloseLine
         /\ Articles(cleaned) = Articles(scratch)

IsArtifact(line) ==
    line \in {XmlDeclLine, DoctypeLine, RootOpenLine, RootCloseLine}
Positions(seq, x) == {i \in DOMAIN seq : seq[i] = x}
Returned == cleaned # NotWritten /\ ~scratchExists

\* C11: the clean-up drops only whole artifact lines: every line of the raw
\* stream that starts with none of the four prefixes is in the output once,
\* unchanged and in order; after the first k copied lines a line is dropped
\* if and only if it starts with one of the prefixes.
C11_OnlyArtifactLinesDropped ==
    cleaned # NotWritten =>
        LET k == Min(HeaderLines, Len(scratch))
        IN /\ SelectSeq(cleaned, LAMBDA l : ~IsArtifact(l))
                 = SelectSeq(scratch, LAMBDA l : ~IsArtifact(l))
           /\ SubSeq(cleaned, 1, k) = SubSeq(scratch, 1, k)
           /\ SubSeq(cleaned, k + 1, Len(cleaned) - 1)
                 = SelectSeq(SubSeq(scratch, k + 1, Len(scratch)),
                             LAMBDA l : ~IsArtifact(l))

C11_Witness ==
    /\ cleaned # NotWritten
    /\ Len(written) >= 2
    /\ Len(scratch) > HeaderLines + 4
    /\ \E i \in (HeaderLines + 1)..Len(scratch) : IsArtifact(scratch[i])
    /\ \E i \in (HeaderLines + 1)..Len(scratch) :
          scratch[i].head = "<PubmedArticle>"

\* C12: the search term comment is appended only after the last window has
\* been written, and the cleaned document of a completed run holds it exactly
\* once, after every article element and before the single closing root tag.
C12_CommentOnceBeforeSingleClose ==
    /\ Positions(scratch, CommentLine) # {}
          => (start >= count /\ pc \notin {"for", "while"})
    /\ Returned =>
          /\ Cardinality(Positions(cleaned, CommentLine)) = 1
          /\ \A c \in Positions(cleaned, CommentLine) :
                /\ \A i \in DOMAIN cleaned :
                      cleaned[i].rec >= 0 => i < c
                /\ c < Len(cleaned)
          /\ Last(cleaned) = RootCloseLine
          /\ Positions(cleaned, RootCloseLine) = {Len(cleaned)}

\* C17: a run that aborts while the session is established or the windows
\* are fetched never opens or writes file_cleaned, and the scratch file is
\* deleted only after the cleaned document has been written completely.
C17_AbortLeavesCleanedUntouched ==
    /\ (pc = "failed" /\ error.type # "ParseError")
          => (cleaned = NotWritten /\ corpus = <<>> /\ scratchExists)
    /\ pc \in {"esearch", "esearch2", "epost", "for", "while", "comment",
               "clean"}
          => (cleaned = NotWritten /\ scratchExists)
    /\ ~scratchExists
          => (cleaned # NotWritten /\ Last(cleaned) = RootCloseLine)

C17_Witness ==
    /\ pc = "failed"
    /\ error.type \in {"HTTPError", "UnboundLocalError", "ValueError",
                       "NameError", "AssertionError"}
    /\ written # <<>>
    /\ scratch # <<>>
    /\ cleaned = NotWritten

FetchRank ==
    IF pc \in {"for", "while"}
       THEN start * (MaxAttempts + 2)
               + (IF pc = "while" THEN attempt + 1 ELSE 0)
       ELSE (count + batch_size + 1) * (MaxAttempts + 2)

\* C19: whatever the fetch outcomes, the fetch phase ends (completed or
\* failed): every step of it advances a bounded rank, with at most 3 attempts
\* per window and 3 * ceil(totalCount / batchSize) attempts in total.
C19_FetchPhaseEnds ==
    /\ [](/\ attempt <= 3
          /\ \A w \in 0..count :
                Cardinality({i \in DOMAIN fetchLog :
                                fetchLog[i].retstart = w}) <= 3
          /\ Len(fetchLog) <= 3 * Windows
          /\ FetchRank <= (count + batch_size + 1) * (MaxAttempts + 2))
    /\ [][(pc \in {"for", "while"}) => (FetchRank' > FetchRank)]_vars

C19_Witness ==
    /\ AfterFetching
    /\ ~allOk
    /\ count = MaxCount
    /\ batch_size = 1
    /\ Len(fetchLog) = 3 * MaxCount

Extracted == xpc = "returned"
TextsOf(sch) == {root.ids[i].text : i \in IdsWith(root.ids, sch)}
IdentityFields == {"my_id", "doi", "pmid"}
ArticleFields ==
    {"my_id", "doi", "pmid", "authors", "title", "abstract", "journal", "year"}
SameFields(a, b, fs) == \A f \in fs : a[f] = b[f]

\* C13: with a DOI and a native identifier, in either order, my_id is the
\* DOI; with only a native identifier my_id is that one; with neither, my_id
\* is absent; doi and pmid always hold the raw values found.
C13_DoiBeforePmid ==
    Extracted =>
        /\ TextsOf("doi") # {} =>
              /\ article.doi.s \in TextsOf("doi")
              /\ article.my_id = article.doi
        /\ TextsOf("doi") = {} => article.doi = None
        /\ TextsOf("pubmed") # {} => article.pmid.s \in TextsOf("pubmed")
        /\ TextsOf("pubmed") = {} => article.pmid = None
        /\ (TextsOf("doi") = {} /\ TextsOf("pubmed") # {})
              => article.my_id = article.pmid
        /\ (TextsOf("doi") = {} /\ TextsOf("pubmed") = {})
              => article.my_id = None
        /\ \A f \in IdentityFields :
              (article[f] = None) = (article[f].s = "")

C13_Witness ==
    /\ Extracted
    /\ root.ids = <<[scheme |-> "pubmed", text |-> "999"],
                    [scheme |-> "doi", text |-> "10.1/x"]>>
    /\ article.my_id = Str("10.1/x")
    /\ article.doi = Str("10.1/x")
    /\ article.pmid = Str("999")

\* C14: for any article element, my_id is set if and only if at least one of
\* doi and pmid is set.
C14_MyIdSetIffDoiOrPmid ==
    Extracted =>
        ((article.my_id # None)
            = (article.doi # None \/ article.pmid # None))

YearNumber(x) == IF x = "2020" THEN 2020 ELSE 0

\* C15: without a Year element the Article's year is the integer 0, with one
\* it is that year as an integer.
C15_YearIsAnInteger ==
    Extracted =>
        /\ ~root.year.present => article.year = IntValue(0)
        /\ root.year.present
              => article.year = IntValue(YearNumber(root.year.text))

\* C16: a missing abstract, title, journal, author list or identifier raises
\* nothing, leaves that field absent (authors: empty) and changes no other
\* field with respect to the element that has it.
C16_MissingFieldsAreNotErrors ==
    Extracted =>
        /\ article.raised = "none"
        /\ ~root.abstract.present =>
              /\ article.abstract = NoText
              /\ \A a \in Abstracts :
                    SameFields(article,
                               article_from_pubmed([root EXCEPT !.abstract = a]),
                               ArticleFields \ {"abstract"})
        /\ ~root.title.present =>
              /\ article.title = None
              /\ SameFields(article,
                            article_from_pubmed(
                                [root EXCEPT !.title = Elem("A title")]),
                            ArticleFields \ {"title"})
        /\ ~root.journal.present =>
              /\ article.journal = None
              /\ SameFields(article,
                            article_from_pubmed(
                                [root EXCEPT !.journal = Elem("J Mol Biol")]),
                            ArticleFields \ {"journal"})
        /\ root.authors = <<>> =>
              /\ article.authors = <<>>
              /\ \A as \in AuthorLists :
                    SameFields(article,
                               article_from_pubmed([root EXCEPT !.authors = as]),
                               ArticleFields \ {"authors"})
        /\ root.ids = <<>> =>
              /\ \A f \in IdentityFields : article[f] = None
              /\ \A ids \in SeqsUpTo(ArticleIds, MaxIds) :
                    SameFields(article,
                               article_from_pubmed([root EXCEPT !.ids = ids]),
                               ArticleFields \ IdentityFields)

C16_Witness ==
    /\ Extracted
    /\ ~root.abstract.present
    /\ article.abstract = NoText
    /\ article.title = Str("A title")
    /\ article.my_id = Str("10.1/x")
    /\ Len(article.authors) = 2

\* the text of an element and of all its descendants, in document order
FlatText(e) ==
    SelectSeq(<<e.text>> \o ChildText(e.children), LAMBDA x : x # "")

\* C20: abstract is absent only when there is no Abstract element; whenever
\* there is one, with or without child elements, abstract is the text of the
\* element and its descendants in document order.
C20_AbstractIsFlattenedText ==
    Extracted =>
        /\ ~root.abstract.present => article.abstract = NoText
        /\ root.abstract.present
              => article.abstract = Pieces(FlatText(root.abstract))
====
